---- MODULE Spec2Model ----
(***************************************************************************)
(* State-machine model of farmer.py: the turn-based combat screen          *)
(* (CombatScreen) and the narrative progression and ending resolution of   *)
(* Game.  Rendering, map geometry and key polling are inputs: a collision  *)
(* or a key press is an action of the environment, a random draw is an     *)
(* existentially chosen outcome.                                           *)
(***************************************************************************)
EXTENDS Integers, Sequences, FiniteSets, TLC

VARIABLES
    where,          \* control position: "world", "combat", "ending", "exit"
    pclass,         \* PlayerState.pclass
    hp, mp, gold,   \* PlayerState.hp / mp / gold
    inventory,      \* PlayerState.inventory, as the sequence of item names
    helped_spirit,  \* PlayerState.helped_spirit
    has_charm,      \* PlayerState.has_charm
    defending,      \* PlayerState.defending (attribute set by CombatScreen)
    scene_index,    \* Game.scene_index (0 Village, 1 Forest, 2 Castle)
    enemies,        \* names of the enemy objects still present in the scenes
    items,          \* names of the item objects still present in the scenes
    running,        \* Game.running
    endings,        \* the ending types passed to end_game, in call order
    site,           \* caller of transition_to_combat: "world", "B", "F", "T"
    enemy_name,     \* CombatScreen.enemy_name ("None" outside a session)
    enemy_hp,       \* CombatScreen.enemy['hp']
    finished,       \* CombatScreen.finished
    victory,        \* CombatScreen.victory
    phase,          \* position in the loop of CombatScreen.run: "input" before a key
                    \* event is taken, "acted" when the player's action has returned
    log,            \* messages appended to CombatScreen.log by the player's action of
                    \* the current round (the rest of the log is not kept)
    enemy_turns,    \* enemy turns run so far in the current round
    pending,        \* TRUE when the session is finished and the for loop still has
                    \* events of the current pygame.event.get() batch to handle
    result,         \* dict returned by the latest CombatScreen.run()
    resume,         \* what the caller of end_game still runs when it returns
    message,        \* Game.message
    keys            \* number of combat key events handled in this playthrough

vars == <<where, pclass, hp, mp, gold, inventory, helped_spirit, has_charm,
          defending, scene_index, enemies, items, running, endings, site,
          enemy_name, enemy_hp, finished, victory, phase, log, enemy_turns,
          pending, result, resume, message, keys>>

(***************************************************************************)
(* Bounds of the model.                                                    *)
(***************************************************************************)
MaxKeys == 1
MaxInv == 3      \* inventory length up to which items are still added

(***************************************************************************)
(* Utilities.                                                              *)
(***************************************************************************)
Min(a, b) == IF a <= b THEN a ELSE b

Max(a, b) == IF a >= b THEN a ELSE b

\* mutant: the value is not limited
clamp_none(n, a, b) == n

clamp(n, a, b) == Max(a, Min(b, n))

RemoveAt(s, i) == SubSeq(s, 1, i - 1) \o SubSeq(s, i + 1, Len(s))

(***************************************************************************)
(* Player classes (Game.create_player).                                    *)
(***************************************************************************)
Classes == {"Warrior", "Mage", "Rogue"}

ClassStats(c) ==
    CASE c = "Warrior" -> [name |-> "Hero", strength |-> 8, agility |-> 5, magic |-> 2,
                           max_hp |-> 40, max_mp |-> 10,
                           inventory |-> <<"Small Potion", "Lucky Charm">>]
      [] c = "Mage"    -> [name |-> "Aria", strength |-> 2, agility |-> 4, magic |-> 9,
                           max_hp |-> 26, max_mp |-> 30,
                           inventory |-> <<"Mana Potion", "Mana Potion">>]
      [] c = "Rogue"   -> [name |-> "Shade", strength |-> 6, agility |-> 8, magic |-> 4,
                           max_hp |-> 32, max_mp |-> 15,
                           inventory |-> <<"Small Potion", "Dagger">>]

StartGold == 12

strength == ClassStats(pclass).strength
agility == ClassStats(pclass).agility
magic == ClassStats(pclass).magic
max_hp == ClassStats(pclass).max_hp
max_mp == ClassStats(pclass).max_mp

(***************************************************************************)
(* Scenes (create_village_scene, create_forest_scene, create_castle_scene).*)
(***************************************************************************)
SceneEnemies(i) ==
    CASE i = 0 -> {}
      [] i = 1 -> {"Goblin", "Bandit"}
      [] i = 2 -> {"Bandit Leader"}

SceneItems(i) ==
    CASE i = 0 -> {"Chest"}
      [] i = 1 -> {"Glint"}
      [] i = 2 -> {"Banner"}

ItemIn(obj) ==
    CASE obj = "Chest"  -> "Small Potion"
      [] obj = "Glint"  -> "Lucky Charm"
      [] obj = "Banner" -> "Spirit Charm"

LastScene == 2

SceneNpcs(i) ==
    CASE i = 0 -> {"Elder"}
      [] i = 1 -> {"Trapped Spirit"}
      [] i = 2 -> {"Ancient Guardian"}

SceneName(i) ==
    CASE i = 0 -> "Village"
      [] i = 1 -> "Forest"
      [] i = 2 -> "Castle"

(***************************************************************************)
(* Enemy catalog (CombatScreen.make_enemy).                                *)
(***************************************************************************)
make_enemy(name) ==
    IF name = "Goblin"
    THEN [name |-> "Goblin", hp |-> 20, str |-> 4, agi |-> 3, lvl |-> 1]
    ELSE IF name = "Bandit" \/ name = "Bandit Leader"
    THEN [name |-> "Bandit Leader", hp |-> 30, str |-> 6, agi |-> 4, lvl |-> 2]
    ELSE IF name = "Ancient Guardian"
    THEN [name |-> "Ancient Guardian", hp |-> 70, str |-> 10, agi |-> 3, lvl |-> 5]
    ELSE [name |-> "Wolf", hp |-> 18, str |-> 5, agi |-> 5, lvl |-> 1]

(***************************************************************************)
(* Combat actions (CombatScreen).  Each operator maps the session record s *)
(* (the fields a key event can touch) and the random draws of the code to  *)
(* the record after the call.                                              *)
(***************************************************************************)
Cur ==
    [hp |-> hp, mp |-> mp, gold |-> gold, inventory |-> inventory,
     has_charm |-> has_charm, defending |-> defending, enemy_hp |-> enemy_hp,
     finished |-> finished, victory |-> victory, log |-> log,
     enemy_turns |-> enemy_turns, brk |-> FALSE]

append(s, text) == [s EXCEPT !.log = Append(@, text)]

AttackBase == 3

AttackBonus == 0 .. 4

\* mutant: a critical hit halves the damage
CritDamage_half(dmg) == dmg \div 2

\* int(dmg * 1.5) for a non-negative integer dmg
CritDamage(dmg) == (dmg * 3) \div 2

player_attack(s, crit, bonus) ==
    LET base == AttackBase + strength
        raw == base + bonus
        dmg == IF crit THEN CritDamage(raw) ELSE raw
        s1 == IF crit THEN append(s, "Critical hit!") ELSE s
    IN append([s1 EXCEPT !.enemy_hp = @ - dmg], "You attack")

MagicCost == 6

MagicBase == 4

MagicBonus == 0 .. 6

\* mutant: the cost is taken before the MP test
player_magic_eager(s, bonus) ==
    IF s.mp < MagicCost
    THEN append([s EXCEPT !.mp = @ - MagicCost], "Not enough MP.")
    ELSE LET dmg == magic + MagicBase + bonus
         IN append([s EXCEPT !.mp = @ - MagicCost, !.enemy_hp = @ - dmg],
                   "You cast a spell")

\* mutant: a cast needs more MP than it costs
player_magic_le(s, bonus) ==
    IF s.mp <= MagicCost
    THEN append(s, "Not enough MP.")
    ELSE LET dmg == magic + MagicBase + bonus
         IN append([s EXCEPT !.mp = @ - MagicCost, !.enemy_hp = @ - dmg],
                   "You cast a spell")

player_magic(s, bonus) ==
    IF s.mp < MagicCost
    THEN append(s, "Not enough MP.")
    ELSE LET dmg == magic + MagicBase + bonus
         IN append([s EXCEPT !.mp = @ - MagicCost, !.enemy_hp = @ - dmg],
                   "You cast a spell")

player_defend(s) == append([s EXCEPT !.defending = TRUE], "You brace")

Catalog == {"Small Potion", "Mana Potion", "Lucky Charm", "Spirit Charm"}

\* mutant: the loop acts on the last usable item of the inventory
FirstUsable_last(inv) ==
    IF \E i \in 1 .. Len(inv) : inv[i] \in Catalog
    THEN CHOOSE i \in 1 .. Len(inv) :
            /\ inv[i] \in Catalog
            /\ \A j \in (i + 1) .. Len(inv) : inv[j] \notin Catalog
    ELSE 0

\* index of the first inventory item the loop of player_use_item acts on, 0 if none
FirstUsable(inv) ==
    IF \E i \in 1 .. Len(inv) : inv[i] \in Catalog
    THEN CHOOSE i \in 1 .. Len(inv) :
            /\ inv[i] \in Catalog
            /\ \A j \in 1 .. (i - 1) : inv[j] \notin Catalog
    ELSE 0

PotionHeal == 20

ManaRestore == 12

CharmHeal == 8

CharmGold == 5

player_use_item(s) ==
    IF s.inventory = <<>>
    THEN append(s, "No items to use.")
    ELSE LET i == FirstUsable(s.inventory)
             rest == RemoveAt(s.inventory, i)
         IN IF i = 0
            THEN append(s, "No usable items found")
            ELSE CASE s.inventory[i] = "Small Potion" ->
                        append([s EXCEPT !.hp = clamp(max_hp, s.hp + PotionHeal, max_hp),
                                         !.inventory = rest],
                               "Used Small Potion")
                   [] s.inventory[i] = "Mana Potion" ->
                        append([s EXCEPT !.mp = clamp(s.mp + ManaRestore, 0, max_mp),
                                         !.inventory = rest],
                               "Used Mana Potion")
                   [] s.inventory[i] = "Lucky Charm" ->
                        append([s EXCEPT !.hp = Min(max_hp, s.hp + CharmHeal),
                                         !.gold = @ + CharmGold,
                                         !.inventory = rest],
                               "Lucky Charm used")
                   [] s.inventory[i] = "Spirit Charm" ->
                        append([s EXCEPT !.has_charm = TRUE, !.inventory = rest],
                               "Spirit Charm hums")

\* the draws of one enemy_turn: random.random() < hit_chance, then randint(0, 3)
EnemyRolls ==
    {[hit |-> FALSE, bonus |-> 0]} \cup {[hit |-> TRUE, bonus |-> b] : b \in 0 .. 3}

\* mutant: the halved damage is rounded up
enemy_turn_ceil(s, e) ==
    IF s.enemy_hp <= 0
    THEN s
    ELSE IF e.hit
         THEN LET raw == make_enemy(enemy_name).str + e.bonus
                  dmg == IF s.defending THEN (raw + 1) \div 2 ELSE raw
              IN append([s EXCEPT !.hp = @ - dmg, !.enemy_turns = @ + 1], "hits you")
         ELSE append([s EXCEPT !.enemy_turns = @ + 1], "misses!")

enemy_turn(s, e) ==
    IF s.enemy_hp <= 0
    THEN s
    ELSE IF e.hit
         THEN LET raw == make_enemy(enemy_name).str + e.bonus
                  dmg == IF s.defending THEN raw \div 2 ELSE raw
              IN append([s EXCEPT !.hp = @ - dmg, !.enemy_turns = @ + 1], "hits you")
         ELSE append([s EXCEPT !.enemy_turns = @ + 1], "misses!")

attempt_flee(s, ok, e) ==
    IF ok
    THEN [append(s, "You fled successfully.") EXCEPT !.finished = TRUE, !.victory = FALSE]
    ELSE enemy_turn(append(s, "Flee failed!"), e)

(***************************************************************************)
(* One key event of the loop of CombatScreen.run.                          *)
(***************************************************************************)
\* mutant: an enemy at exactly 0 hp still counts as alive
enemy_dead_strict(s) == s.enemy_hp < 0

enemy_dead(s) == s.enemy_hp <= 0

GoldPerLevel == 5

\* the loot draw random.random() < 0.6; no drop is drawn into a full inventory
DropRolls(s) == IF Len(s.inventory) < MaxInv THEN BOOLEAN ELSE {FALSE}

\* mutant: the gold granted does not depend on the enemy's level
win_flat(s, drop) ==
    LET s1 == append([s EXCEPT !.gold = @ + GoldPerLevel], "You defeated")
        s2 == IF drop
              THEN append([s1 EXCEPT !.inventory = Append(@, "Small Potion")],
                          "Enemy dropped Small Potion.")
              ELSE s1
    IN [s2 EXCEPT !.finished = TRUE, !.victory = TRUE, !.brk = TRUE]

win(s, drop) ==
    LET s1 == append([s EXCEPT !.gold = @ + make_enemy(enemy_name).lvl * GoldPerLevel],
                     "You defeated")
        s2 == IF drop
              THEN append([s1 EXCEPT !.inventory = Append(@, "Small Potion")],
                          "Enemy dropped Small Potion.")
              ELSE s1
    IN [s2 EXCEPT !.finished = TRUE, !.victory = TRUE, !.brk = TRUE]

\* mutant: the defend flag is not reset after the enemy's turn
enemy_round_keeps_guard(s, e) ==
    LET s1 == enemy_turn(s, e)
    IN IF s1.hp <= 0
       THEN [append(s1, "You were defeated...") EXCEPT
                !.finished = TRUE, !.victory = FALSE, !.brk = TRUE]
       ELSE s1

enemy_round(s, e) ==
    LET s1 == [enemy_turn(s, e) EXCEPT !.defending = FALSE]
    IN IF s1.hp <= 0
       THEN [append(s1, "You were defeated...") EXCEPT
                !.finished = TRUE, !.victory = FALSE, !.brk = TRUE]
       ELSE s1

ActionKeys == {"A", "M", "D", "I", "F"}

\* the records a player action can produce, over the random draws it makes
PlayerOutcomes(k, s) ==
    CASE k = "A" -> {player_attack(s, crit, b) : crit \in BOOLEAN, b \in AttackBonus}
      [] k = "M" -> {player_magic(s, b) : b \in MagicBonus}
      [] k = "D" -> {player_defend(s)}
      [] k = "I" -> {player_use_item(s)}
      [] k = "F" -> {attempt_flee(s, ok, e) : ok \in BOOLEAN, e \in EnemyRolls}

Commit(s) ==
    /\ hp' = s.hp
    /\ mp' = s.mp
    /\ gold' = s.gold
    /\ inventory' = s.inventory
    /\ has_charm' = s.has_charm
    /\ defending' = s.defending
    /\ enemy_hp' = s.enemy_hp
    /\ finished' = s.finished
    /\ victory' = s.victory
    /\ enemy_turns' = s.enemy_turns

\* The loop takes the next key event when the session is not finished (from the
\* current batch or, after the while test and a redraw, from the next frame's)
\* or when it is finished and the for loop still has events of the current batch.
TakesEvent == where = "combat" /\ phase = "input" /\ (~finished \/ pending)

\* whether the batch holds another event is drawn where the code can tell: when
\* an event has been handled without break and the session is finished
MoreEvents(fin, brk) == IF fin /\ ~brk THEN BOOLEAN ELSE {FALSE}

\* the next event of the batch is one of the five action keys: the player's action
KeyEvent(k) ==
    /\ TakesEvent
    /\ \E s \in PlayerOutcomes(k, [Cur EXCEPT !.log = <<>>, !.enemy_turns = 0]) :
          /\ Commit(s)
          /\ log' = s.log
    /\ phase' = "acted"
    /\ UNCHANGED <<where, pclass, helped_spirit, scene_index, enemies, items,
                   running, endings, site, enemy_name, pending, result, resume,
                   message>>

\* the next event of the batch is any other key: the loop continues with the
\* event after it, if the batch has one
OtherKey ==
    /\ TakesEvent
    /\ pending' \in MoreEvents(finished, FALSE)
    /\ UNCHANGED <<where, pclass, hp, mp, gold, inventory, helped_spirit, has_charm,
                   defending, scene_index, enemies, items, running, endings, site,
                   enemy_name, enemy_hp, finished, victory, phase, log, enemy_turns,
                   result, resume, message, keys>>

\* the rest of the loop body once the action has returned: the victory check, the
\* enemy's turn, the reset of the defend flag and the death check
RoundEnd ==
    /\ where = "combat"
    /\ phase = "acted"
    /\ IF enemy_dead(Cur)
       THEN \E drop \in DropRolls(Cur) :
               /\ Commit(win(Cur, drop))
               /\ pending' = FALSE
       ELSE \E e \in EnemyRolls :
               LET s == enemy_round(Cur, e)
               IN /\ Commit(s)
                  /\ pending' \in MoreEvents(s.finished, s.brk)
    /\ phase' = "input"
    /\ log' = <<>>
    /\ UNCHANGED <<where, pclass, helped_spirit, scene_index, enemies, items,
                   running, endings, site, enemy_name, result, resume,
                   message, keys>>

run_result(vic, ehp, fin) == [victory |-> vic, fled |-> (~vic /\ ehp > 0 /\ fin)]

(***************************************************************************)
(* Game: endings, the return of a combat session, the world loop.          *)
(***************************************************************************)
\* mutant: the test of helped_spirit is inverted
GuardianOutcome_inverted(st, res) ==
    IF ~res.victory
    THEN "BAD"
    ELSE IF st = "T"
         THEN "NEUTRAL"
         ELSE IF helped_spirit THEN "NEUTRAL" ELSE "GOOD"

\* mutant: a victory after a failed Trick is resolved as one after Fight
GuardianOutcome_trick_as_fight(st, res) ==
    IF ~res.victory
    THEN "BAD"
    ELSE IF helped_spirit THEN "GOOD" ELSE "NEUTRAL"

\* the branches of final_guardian_event that follow its transition_to_combat call
GuardianOutcome(st, res) ==
    IF ~res.victory
    THEN "BAD"
    ELSE IF st = "T"
         THEN "NEUTRAL"
         ELSE IF helped_spirit THEN "GOOD" ELSE "NEUTRAL"

\* the detail text those branches pass to end_game
GuardianDetail(st, res) ==
    CASE st = "B" -> IF ~res.victory
                     THEN "You failed to subdue the Guardian."
                     ELSE IF helped_spirit
                          THEN "You defeated it and the land heals faster."
                          ELSE "You defeated it, but the cost was heavy."
      [] st = "F" -> IF ~res.victory
                     THEN "The Guardian defeated you."
                     ELSE IF helped_spirit
                          THEN "You defeated the Guardian; the spirits aid recovery."
                          ELSE "You won, but peace will take time."
      [] st = "T" -> IF ~res.victory
                     THEN "You were defeated while attempting a trick."
                     ELSE "You prevailed but the victory feels hollow."

\* the message end_game sets
EndingMessage(ending_type, detail) == "=== Ending: " \o ending_type \o " === " \o detail

\* the message transition_to_combat sets from the result of the session
CombatMessage(name, res) ==
    IF res.victory
    THEN "Defeated " \o name \o "."
    ELSE IF res.fled THEN "You fled the combat." ELSE "You were defeated..."

\* CombatScreen.__init__ for the object enemy_obj, called from st
StartCombat(name, st) ==
    /\ where' = "combat"
    /\ site' = st
    /\ enemy_name' = name
    /\ enemy_hp' = make_enemy(name).hp
    /\ log' = <<>>
    /\ defending' = FALSE
    /\ finished' = FALSE
    /\ victory' = FALSE
    /\ phase' = "input"
    /\ enemy_turns' = 0
    /\ pending' = FALSE

\* the session object is gone once transition_to_combat has its result
DropSession ==
    /\ enemy_name' = "None"
    /\ enemy_hp' = 0
    /\ log' = <<>>
    /\ enemy_turns' = 0
    /\ finished' = FALSE
    /\ victory' = FALSE

\* mutant: transition_to_combat does not look at the player's hp
EndCombat_no_death_check ==
    /\ where = "combat"
    /\ phase = "input"
    /\ ~pending
    /\ finished
    /\ LET res == run_result(victory, enemy_hp, finished)
       IN /\ result' = <<res>>
          /\ enemies' = IF res.victory THEN enemies \ {enemy_name} ELSE enemies
          /\ IF site = "world"
             THEN /\ where' = "world"
                  /\ message' = CombatMessage(enemy_name, res)
                  /\ UNCHANGED <<endings, resume>>
             ELSE /\ endings' = Append(endings, GuardianOutcome(site, res))
                  /\ message' = EndingMessage(GuardianOutcome(site, res),
                                              GuardianDetail(site, res))
                  /\ where' = "ending"
                  /\ resume' = "run"
    /\ DropSession
    /\ UNCHANGED <<pclass, hp, mp, gold, inventory, helped_spirit, has_charm,
                   defending, scene_index, items, running, site, phase, pending, keys>>

\* CombatScreen.run returns; transition_to_combat and its caller run on to the
\* next point where the program waits for a key
EndCombat ==
    /\ where = "combat"
    /\ phase = "input"
    /\ ~pending
    /\ finished
    /\ LET res == run_result(victory, enemy_hp, finished)
       IN /\ result' = <<res>>
          /\ enemies' = IF res.victory THEN enemies \ {enemy_name} ELSE enemies
          /\ IF hp <= 0
             THEN /\ endings' = Append(endings, "BAD")
                  /\ message' = EndingMessage("BAD", "You have fallen in battle.")
                  /\ where' = "ending"
                  /\ resume' = IF site = "world" THEN "run" ELSE "guardian"
             ELSE IF site = "world"
                  THEN /\ where' = "world"
                       /\ message' = CombatMessage(enemy_name, res)
                       /\ UNCHANGED <<endings, resume>>
                  ELSE /\ endings' = Append(endings, GuardianOutcome(site, res))
                       /\ message' = EndingMessage(GuardianOutcome(site, res),
                                                   GuardianDetail(site, res))
                       /\ where' = "ending"
                       /\ resume' = "run"
    /\ DropSession
    /\ UNCHANGED <<pclass, hp, mp, gold, inventory, helped_spirit, has_charm,
                   defending, scene_index, items, running, site, phase, pending, keys>>

\* display_ending_screen: ESC or closing the window leaves the process
EndingQuit ==
    /\ where = "ending"
    /\ where' = "exit"
    /\ UNCHANGED <<pclass, hp, mp, gold, inventory, helped_spirit, has_charm,
                   defending, scene_index, enemies, items, running, endings, site,
                   enemy_name, enemy_hp, finished, victory, phase, log, enemy_turns,
                   pending, result, resume, message, keys>>

\* display_ending_screen: R starts a nested main(); once that playthrough has
\* quit, end_game returns to its caller, which runs on with pygame shut down
EndingRestart ==
    /\ where = "ending"
    /\ where' = "exit"
    /\ running' = FALSE
    /\ endings' = IF resume = "guardian"
                  THEN Append(endings, GuardianOutcome(site, result[1]))
                  ELSE endings
    /\ message' = IF resume = "guardian"
                  THEN EndingMessage(GuardianOutcome(site, result[1]),
                                     GuardianDetail(site, result[1]))
                  ELSE message
    /\ resume' = "run"
    /\ UNCHANGED <<pclass, hp, mp, gold, inventory, helped_spirit, has_charm,
                   defending, scene_index, enemies, items, site, enemy_name,
                   enemy_hp, finished, victory, phase, log, enemy_turns, pending, result,
                   keys>>

\* key N outside the castle: world_to_scene(scene_index + 1)
NextScene ==
    /\ where = "world"
    /\ scene_index < LastScene
    /\ scene_index' = scene_index + 1
    /\ message' = "Traveled to " \o SceneName(scene_index + 1) \o "."
    /\ UNCHANGED <<where, pclass, hp, mp, gold, inventory, helped_spirit, has_charm,
                   defending, enemies, items, running, endings, site, enemy_name,
                   enemy_hp, finished, victory, phase, log, enemy_turns, pending, result,
                   resume, keys>>

MagicToBefriend == 8

\* mutant: the charm is not looked at
befriends_magic_only == magic >= MagicToBefriend

\* the test of the Befriend branch
befriends == has_charm \/ magic >= MagicToBefriend

\* key N in the castle while touching the guardian: final_guardian_event with the
\* chosen key and the draw random.random() < chance of the Trick branch
GuardianEvent(chosen, trick) ==
    /\ where = "world"
    /\ scene_index = LastScene
    /\ IF \/ chosen = "B" /\ befriends
          \/ chosen = "T" /\ trick
       THEN /\ endings' = Append(endings, "GOOD")
            /\ message' = EndingMessage("GOOD",
                              IF chosen = "B"
                              THEN "You spoke truly; the guardian accepts peace."
                              ELSE "Your trick works and the Guardian steps aside.")
            /\ where' = "ending"
            /\ UNCHANGED <<site, enemy_name, enemy_hp, log, defending, finished,
                           victory, phase, enemy_turns, pending>>
       ELSE /\ StartCombat("Ancient Guardian", chosen)
            /\ message' = CASE chosen = "B" -> "Your words fail. The Guardian attacks!"
                             [] chosen = "T" -> "Trick failed; Guardian attacks!"
                             [] chosen = "F" -> message
            /\ UNCHANGED endings
    /\ UNCHANGED <<pclass, hp, mp, gold, inventory, helped_spirit, has_charm,
                   scene_index, enemies, items, running, result, resume, keys>>

\* the player walks into an enemy of the scene: transition_to_combat
Collide(en) ==
    /\ where = "world"
    /\ en \in enemies \cap SceneEnemies(scene_index)
    /\ StartCombat(en, "world")
    /\ UNCHANGED <<pclass, hp, mp, gold, inventory, helped_spirit, has_charm,
                   scene_index, enemies, items, running, endings, result, resume,
                   message, keys>>

\* the player walks over an item of the scene: handle_item_pickup
PickUp(obj) ==
    /\ where = "world"
    /\ obj \in items \cap SceneItems(scene_index)
    /\ Len(inventory) < MaxInv
    /\ inventory' = Append(inventory, ItemIn(obj))
    /\ items' = items \ {obj}
    /\ message' = "Picked up " \o ItemIn(obj) \o "!"
    /\ UNCHANGED <<where, pclass, hp, mp, gold, helped_spirit, has_charm, defending,
                   scene_index, enemies, running, endings, site, enemy_name,
                   enemy_hp, finished, victory, phase, log, enemy_turns, pending, result,
                   resume, keys>>

\* the player touches the Elder or the Ancient Guardian: handle_npc_interaction
Talk(npc) ==
    /\ where = "world"
    /\ npc \in SceneNpcs(scene_index)
    /\ npc # "Trapped Spirit"
    /\ message' = IF npc = "Elder"
                  THEN "Elder: 'Training helps. Rest at the inn or buy potions.'"
                  ELSE "The Ancient Guardian watches you."
    /\ UNCHANGED <<where, pclass, hp, mp, gold, inventory, helped_spirit, has_charm,
                   defending, scene_index, enemies, items, running, endings, site,
                   enemy_name, enemy_hp, finished, victory, phase, log, enemy_turns,
                   pending, result, resume, keys>>

\* mutant: helping the spirit gives the item but does not set has_charm
MeetSpirit_item_only(chosen) ==
    /\ where = "world"
    /\ "Trapped Spirit" \in SceneNpcs(scene_index)
    /\ IF chosen = "Y"
       THEN /\ Len(inventory) < MaxInv
            /\ helped_spirit' = TRUE
            /\ inventory' = Append(inventory, "Spirit Charm")
            /\ message' = "You freed the spirit. It grants you a Spirit Charm."
            /\ UNCHANGED has_charm
       ELSE /\ message' = "You ignored the spirit. You feel uneasy."
            /\ UNCHANGED <<helped_spirit, inventory, has_charm>>
    /\ UNCHANGED <<where, pclass, hp, mp, gold, defending, scene_index, enemies,
                   items, running, endings, site, enemy_name, enemy_hp, finished,
                   victory, phase, log, enemy_turns, pending, result, resume, keys>>

\* the player touches the Trapped Spirit: handle_npc_interaction with the answer
\* given to ask_choice
MeetSpirit(chosen) ==
    /\ where = "world"
    /\ "Trapped Spirit" \in SceneNpcs(scene_index)
    /\ IF chosen = "Y"
       THEN /\ Len(inventory) < MaxInv
            /\ helped_spirit' = TRUE
            /\ inventory' = Append(inventory, "Spirit Charm")
            /\ has_charm' = TRUE
            /\ message' = "You freed the spirit. It grants you a Spirit Charm."
       ELSE /\ message' = "You ignored the spirit. You feel uneasy."
            /\ UNCHANGED <<helped_spirit, inventory, has_charm>>
    /\ UNCHANGED <<where, pclass, hp, mp, gold, defending, scene_index, enemies,
                   items, running, endings, site, enemy_name, enemy_hp, finished,
                   victory, phase, log, enemy_turns, pending, result, resume, keys>>

\* key R in the world loop: quick heal
QuickHeal ==
    /\ where = "world"
    /\ hp' = max_hp
    /\ mp' = max_mp
    /\ UNCHANGED <<where, pclass, gold, inventory, helped_spirit, has_charm,
                   defending, scene_index, enemies, items, running, endings, site,
                   enemy_name, enemy_hp, finished, victory, phase, log, enemy_turns,
                   pending, result, resume, message, keys>>

\* ESC or closing the window in the world loop
QuitWorld ==
    /\ where = "world"
    /\ running' = FALSE
    /\ where' = "exit"
    /\ UNCHANGED <<pclass, hp, mp, gold, inventory, helped_spirit, has_charm,
                   defending, scene_index, enemies, items, endings, site, enemy_name,
                   enemy_hp, finished, victory, phase, log, enemy_turns, pending, result,
                   resume, message, keys>>

(***************************************************************************)
(* The playthrough: Game.__init__ and create_player, then any key, any     *)
(* collision and any random draw.                                          *)
(***************************************************************************)
\* the player create_player builds, in a world nothing has been taken from
Fresh ==
    /\ pclass \in Classes
    /\ hp = max_hp
    /\ mp = max_mp
    /\ gold = StartGold
    /\ inventory = ClassStats(pclass).inventory
    /\ helped_spirit = FALSE
    /\ has_charm = FALSE
    /\ defending = FALSE
    /\ enemies = UNION {SceneEnemies(i) : i \in 0 .. LastScene}
    /\ items = UNION {SceneItems(i) : i \in 0 .. LastScene}
    /\ running = TRUE
    /\ endings = <<>>
    /\ finished = FALSE
    /\ victory = FALSE
    /\ phase = "input"
    /\ log = <<>>
    /\ enemy_turns = 0
    /\ pending = FALSE
    /\ result = <<>>
    /\ resume = "run"
    /\ keys = 0

Init ==
    /\ Fresh
    /\ message = "Welcome, " \o ClassStats(pclass).name \o " the " \o pclass \o "!"
    /\ where = "world"
    /\ scene_index = 0
    /\ site = "world"
    /\ enemy_name = "None"
    /\ enemy_hp = 0

\* a combat key event, counted against the bound of the model
CombatKey ==
    /\ keys < MaxKeys
    /\ keys' = keys + 1
    /\ \E k \in ActionKeys : KeyEvent(k)

Next ==
    \/ CombatKey
    \/ OtherKey
    \/ RoundEnd
    \/ EndCombat
    \/ EndingQuit
    \/ EndingRestart
    \/ NextScene
    \/ \E chosen \in {"B", "F", "T"}, trick \in BOOLEAN : GuardianEvent(chosen, trick)
    \/ \E en \in {"Goblin", "Bandit", "Bandit Leader"} : Collide(en)
    \/ \E obj \in {"Chest", "Glint", "Banner"} : PickUp(obj)
    \/ \E npc \in {"Elder", "Ancient Guardian"} : Talk(npc)
    \/ \E chosen \in {"Y", "N"} : MeetSpirit(chosen)
    \/ QuickHeal
    \/ QuitWorld

Spec == Init /\ [][Next]_vars

(***************************************************************************)
(* One combat session of a fresh character.  The initial states are the    *)
(* states of Spec in which that character, having only travelled (key N),  *)
(* has just entered a session; the world loop is left out.                 *)
(***************************************************************************)
MaxTurns == 3    \* combat key events explored in the session

\* the sessions a fresh character of class c can enter
Encounters(c) ==
    {[scene |-> 1, enemy |-> "Goblin", site |-> "world"],
     [scene |-> 1, enemy |-> "Bandit", site |-> "world"],
     [scene |-> 2, enemy |-> "Bandit Leader", site |-> "world"],
     [scene |-> 2, enemy |-> "Ancient Guardian", site |-> "F"],
     [scene |-> 2, enemy |-> "Ancient Guardian", site |-> "T"]}
    \cup IF ClassStats(c).magic >= MagicToBefriend
         THEN {}
         ELSE {[scene |-> 2, enemy |-> "Ancient Guardian", site |-> "B"]}

InitSession ==
    /\ Fresh
    /\ where = "combat"
    /\ \E enc \in Encounters(pclass) :
          /\ scene_index = enc.scene
          /\ site = enc.site
          /\ enemy_name = enc.enemy
          /\ enemy_hp = make_enemy(enc.enemy).hp
          /\ message = CASE enc.site = "B" -> "Your words fail. The Guardian attacks!"
                          [] enc.site = "T" -> "Trick failed; Guardian attacks!"
                          [] OTHER -> "Traveled to " \o SceneName(enc.scene) \o "."

SessionKey ==
    /\ keys < MaxTurns
    /\ keys' = keys + 1
    /\ \E k \in ActionKeys : KeyEvent(k)

NextSession ==
    \/ SessionKey
    \/ OtherKey
    \/ RoundEnd
    \/ EndCombat
    \/ EndingQuit
    \/ EndingRestart

SpecSession == InitSession /\ [][NextSession]_vars

(***************************************************************************)
(* The sessions of a Mage who only casts: every key event is key M.        *)
(***************************************************************************)
InitCast == InitSession /\ pclass = "Mage"

CastKey == KeyEvent("M") /\ UNCHANGED keys

NextCast ==
    \/ CastKey
    \/ RoundEnd
    \/ EndCombat
    \/ EndingQuit
    \/ EndingRestart

SpecCast == InitCast /\ [][NextCast]_vars

(***************************************************************************)
(* Claims.                                                                 *)
(***************************************************************************)
\* the step in which the player's action of a round runs
ActionStep == TakesEvent /\ phase' = "acted"

\* the state in which the player's action has just returned with report msg
Acted(msg) == where = "combat" /\ phase = "acted" /\ log # <<>> /\ log[Len(log)] = msg

\* C1: in every reachable state of a playthrough the player's hp satisfies
\* 0 <= hp <= max_hp.
C1_HpWithinBounds == 0 <= hp /\ hp <= max_hp

\* C2: a Small Potion used at hp_before in 1..max_hp leaves hp at
\* min(max_hp, hp_before + 20), so at max_hp when hp_before = max_hp, and the
\* potion is removed from the inventory.
C2_SmallPotionCapped ==
    [][(ActionStep /\ log' = <<"Used Small Potion">> /\ hp \in 1 .. max_hp)
          => /\ hp' = Min(max_hp, hp + 20)
             /\ (hp = max_hp => hp' = hp)
             /\ inventory' = RemoveAt(inventory, FirstUsable(inventory))]_vars

\* C3: a successful Flee ends the session at once with outcome fled: no enemy
\* turn runs after it and the player's hp stays what it was before the Flee.
C3_FleeEndsSession ==
    [][Acted("You fled successfully.")
          => /\ enemy_turns' = 0
             /\ hp' = hp
             /\ finished'
             /\ ~victory']_vars

\* C4: a failed Flee is followed by exactly one enemy turn before the next
\* player action is accepted.
C4_OneEnemyTurnAfterFailedFlee ==
    [][(where = "combat" /\ phase = "acted" /\ log # <<>> /\ Head(log) = "Flee failed!")
          => (phase' = "input" => enemy_turns' = 1)]_vars

\* C5: when Attack or Magic brings the enemy's hp to 0 or below, the session
\* goes to victory with no enemy turn in between and the player's hp unchanged.
C5_KillSkipsEnemyTurn ==
    [][((Acted("You attack") \/ Acted("You cast a spell")) /\ enemy_hp <= 0)
          => /\ finished'
             /\ victory'
             /\ enemy_turns' = 0
             /\ hp' = hp]_vars

C5_Witness ==
    /\ where = "combat"
    /\ phase = "input"
    /\ enemy_hp <= 0
    /\ finished
    /\ victory
    /\ hp < max_hp

\* C6: the combat that Fight starts ends the playthrough with BAD if and only
\* if the player's hp reached 0 in it.
C6_FightBadIffDead ==
    (where = "ending" /\ site = "F" /\ result # <<>>)
        => (endings[1] = "BAD" <=> hp <= 0)

\* C7: a Magic cast attempted with mp < 6 is rejected with the not-enough-MP
\* report and leaves mp, the enemy's hp and the inventory as they were.
MagicStep ==
    ActionStep /\ log' \in {<<"Not enough MP.">>, <<"You cast a spell">>}

C7_RejectedCastChangesNothing ==
    [][(MagicStep /\ mp < 6)
          => /\ log' = <<"Not enough MP.">>
             /\ mp' = mp
             /\ enemy_hp' = enemy_hp
             /\ inventory' = inventory]_vars

C7_Witness == Acted("Not enough MP.") /\ mp < 6

\* C8: a rejected Magic cast does not consume the turn: no enemy turn runs and
\* nothing, the player's hp included, changes before the next player action.
C8_RejectedCastKeepsTurn ==
    [][Acted("Not enough MP.")
          => /\ enemy_turns' = 0
             /\ hp' = hp
             /\ UNCHANGED <<mp, gold, inventory, has_charm, enemy_hp>>]_vars

\* C9 as stated: from mp = 30 the casts leave 24, 18, 12 and 6, and the fifth,
\* attempted with mp = 6, fails and leaves mp at 6.
C9_FifthCastFails ==
    [][MagicStep
          => /\ (mp = 30 => mp' = 24)
             /\ (mp = 24 => mp' = 18)
             /\ (mp = 18 => mp' = 12)
             /\ (mp = 12 => mp' = 6)
             /\ (mp = 6 => mp' = 6 /\ log' = <<"Not enough MP.">>)]_vars

\* C9 amended: from mp = 30 the casts leave 24, 18, 12, 6 and 0 (the fifth cast,
\* attempted with mp = 6, succeeds); the sixth, attempted with mp = 0, fails and
\* leaves mp at 0.
C9_SixthCastFails ==
    [][MagicStep
          => /\ (mp = 30 => mp' = 24 /\ log' = <<"You cast a spell">>)
             /\ (mp = 24 => mp' = 18 /\ log' = <<"You cast a spell">>)
             /\ (mp = 18 => mp' = 12 /\ log' = <<"You cast a spell">>)
             /\ (mp = 12 => mp' = 6 /\ log' = <<"You cast a spell">>)
             /\ (mp = 6 => mp' = 0 /\ log' = <<"You cast a spell">>)
             /\ (mp = 0 => mp' = 0 /\ log' = <<"Not enough MP.">>)]_vars

C9_Witness == Acted("Not enough MP.") /\ max_mp = 30 /\ mp = 0

\* C10: the result of a session that ended because the player's hp reached 0
\* reports defeat and not fled.
C10_DefeatNotReportedFled ==
    (where = "ending" /\ result # <<>> /\ hp <= 0) => ~result[1].fled

\* the step in which final_guardian_event resolves the choice Befriend
BefriendStep ==
    /\ where = "world"
    /\ where' # "world"
    /\ message' \in {EndingMessage("GOOD", "You spoke truly; the guardian accepts peace."),
                     "Your words fail. The Guardian attacks!"}

\* C11: choosing Befriend while has_charm is true or magic >= 8 ends the
\* playthrough with GOOD and starts no combat session.
C11_BefriendAccepted ==
    [][(BefriendStep /\ (has_charm \/ magic >= 8))
          => /\ where' = "ending"
             /\ endings' = Append(endings, "GOOD")
             /\ enemy_name' = "None"
             /\ result' = result]_vars

C11_Witness ==
    /\ where = "ending"
    /\ message = EndingMessage("GOOD", "You spoke truly; the guardian accepts peace.")
    /\ has_charm
    /\ magic < 8
    /\ endings = <<"GOOD">>

(***************************************************************************)
(* The guardian event of a character who reaches the guardian at full      *)
(* health, having helped the spirit or not, and who only attacks: every    *)
(* key event of the session is key A.                                      *)
(***************************************************************************)
InitGuardian ==
    /\ pclass \in Classes
    /\ hp = max_hp
    /\ mp = max_mp
    /\ gold = StartGold
    /\ helped_spirit \in BOOLEAN
    /\ has_charm = helped_spirit
    /\ inventory = IF helped_spirit
                   THEN Append(ClassStats(pclass).inventory, "Spirit Charm")
                   ELSE ClassStats(pclass).inventory
    /\ defending = FALSE
    /\ enemies = UNION {SceneEnemies(i) : i \in 0 .. LastScene}
    /\ items = UNION {SceneItems(i) : i \in 0 .. LastScene}
    /\ running = TRUE
    /\ endings = <<>>
    /\ finished = FALSE
    /\ victory = FALSE
    /\ phase = "input"
    /\ log = <<>>
    /\ enemy_turns = 0
    /\ pending = FALSE
    /\ result = <<>>
    /\ resume = "run"
    /\ keys = 0
    /\ message = "The Ancient Guardian watches you."
    /\ where = "world"
    /\ scene_index = LastScene
    /\ site = "world"
    /\ enemy_name = "None"
    /\ enemy_hp = 0

AttackKey == KeyEvent("A") /\ UNCHANGED keys

NextGuardian ==
    \/ \E chosen \in {"B", "F", "T"}, trick \in BOOLEAN : GuardianEvent(chosen, trick)
    \/ AttackKey
    \/ RoundEnd
    \/ EndCombat
    \/ EndingQuit
    \/ EndingRestart

SpecGuardian == InitGuardian /\ [][NextGuardian]_vars

\* the step in which the session that the guardian branch st started returns
GuardianReturns(st) == where = "combat" /\ site = st /\ where' # "combat"

\* C12: choosing Befriend with has_charm false and magic < 8 starts a combat
\* against the guardian; when it returns the ending is BAD on defeat, GOOD on
\* victory with helped_spirit, NEUTRAL on victory without.
C12_BefriendRefused ==
    [][/\ (BefriendStep /\ ~has_charm /\ magic < 8)
            => /\ where' = "combat"
               /\ site' = "B"
               /\ enemy_name' = "Ancient Guardian"
               /\ endings' = endings
       /\ GuardianReturns("B")
            => /\ where' = "ending"
               /\ hp <= 0 => endings' = Append(endings, "BAD")
               /\ (victory /\ helped_spirit) => endings' = Append(endings, "GOOD")
               /\ (victory /\ ~helped_spirit) => endings' = Append(endings, "NEUTRAL")
       /\ (where = "ending" /\ site = "B" /\ hp <= 0)
            => \A i \in 1 .. Len(endings') : endings'[i] = "BAD"]_vars

C12_Witness ==
    /\ where = "ending"
    /\ site = "B"
    /\ message = EndingMessage("NEUTRAL", "You defeated it, but the cost was heavy.")
    /\ result = <<[victory |-> TRUE, fled |-> FALSE]>>
    /\ ~helped_spirit
    /\ endings = <<"NEUTRAL">>

\* C13: when the combat that a failed Trick started returns, the ending is
\* NEUTRAL on victory, whatever helped_spirit is, and BAD on defeat.
C13_TrickFailed ==
    [][/\ GuardianReturns("T")
            => /\ where' = "ending"
               /\ victory => endings' = Append(endings, "NEUTRAL")
               /\ hp <= 0 => endings' = Append(endings, "BAD")
       /\ (where = "ending" /\ site = "T" /\ hp <= 0)
            => \A i \in 1 .. Len(endings') : endings'[i] = "BAD"]_vars

C13_Witness ==
    /\ where = "ending"
    /\ site = "T"
    /\ message = EndingMessage("NEUTRAL", "You prevailed but the victory feels hollow.")
    /\ result = <<[victory |-> TRUE, fled |-> FALSE]>>
    /\ helped_spirit
    /\ endings = <<"NEUTRAL">>

\* C14: the defending flag is false whenever a player turn starts; it is true
\* only between a Defend action and the end of that round, in which the loop
\* clears it whatever the enemy did.
C14_DefendingOnlyInRound ==
    /\ (where = "combat" /\ phase = "input") => ~defending
    /\ defending => (where = "combat" /\ phase = "acted" /\ log = <<"You brace">>)

\* a round of Defend against the Goblin has ended: the hit was halved to 2 and
\* the flag is clear again
C14_Witness ==
    /\ where = "combat"
    /\ phase = "input"
    /\ enemy_name = "Goblin"
    /\ keys = 1
    /\ hp = max_hp - 2
    /\ ~defending

\* C15: the step that ends a session in victory adds exactly enemy level x 5 to
\* the player's gold; the step that ends it in defeat or flight, and the return
\* of the session to the game, change neither gold nor inventory.
C15_RewardOnlyOnVictory ==
    [][/\ (where = "combat" /\ ~victory /\ victory')
            => gold' = gold + make_enemy(enemy_name).lvl * 5
       /\ (where = "combat" /\ ~finished /\ finished' /\ ~victory')
            => (gold' = gold /\ inventory' = inventory)
       /\ (where = "combat" /\ where' # "combat")
            => (gold' = gold /\ inventory' = inventory)]_vars

\* a session against the Bandit (level 2) won without any other change of gold
C15_Witness ==
    /\ where = "world"
    /\ result = <<[victory |-> TRUE, fled |-> FALSE]>>
    /\ message = "Defeated Bandit."
    /\ gold = StartGold + 10

\* the playthrough is over with nothing but BAD endings
EndedBad ==
    /\ where \in {"ending", "exit"}
    /\ endings # <<>>
    /\ \A i \in 1 .. Len(endings) : endings[i] = "BAD"
    /\ enemy_name = "None"

\* C16: when a session (forest, castle or guardian) returns with the player's hp
\* at or below 0, the playthrough ends with the BAD ending, and from then on no
\* scene is entered and no session is started.
C16_DefeatEndsBad ==
    [][/\ (where = "combat" /\ hp <= 0 /\ where' # "combat")
            => (where' = "ending" /\ endings' = Append(endings, "BAD"))
       /\ (hp' <= 0 /\ where' # "combat") => EndedBad'
       /\ (hp <= 0 /\ where # "combat")
            => (scene_index' = scene_index /\ enemies' = enemies)]_vars

\* a character fallen to an enemy met in a scene
C16_Witness ==
    /\ where = "ending"
    /\ site = "world"
    /\ hp <= 0
    /\ result # <<>>
    /\ endings = <<"BAD">>

\* C17: declining to help the trapped spirit appends a Lucky Charm to the
\* inventory and leaves helped_spirit and has_charm as they were; helping sets
\* helped_spirit and has_charm and appends the Spirit Charm.
C17_DeclineGrantsLuckyCharm ==
    [][/\ (where = "world" /\ message' # message
             /\ message' = "You ignored the spirit. You feel uneasy.")
            => /\ inventory' = Append(inventory, "Lucky Charm")
               /\ UNCHANGED <<helped_spirit, has_charm>>
       /\ (where = "world" /\ message' = "You freed the spirit. It grants you a Spirit Charm."
             /\ inventory' # inventory)
            => /\ inventory' = Append(inventory, "Spirit Charm")
               /\ helped_spirit'
               /\ has_charm']_vars

\* C18: in every reachable state the player's mp satisfies 0 <= mp <= max_mp,
\* whatever Magic casts and Mana Potion uses came before.
C18_MpWithinBounds == 0 <= mp /\ mp <= max_mp

\* a Mage has cast once at the Goblin (30 - 6 = 24, the hit of 19 leaves it at 1)
\* and then drunk a Mana Potion: 24 + 12 is cut to max_mp
C18_Witness ==
    /\ Acted("Used Mana Potion")
    /\ pclass = "Mage"
    /\ enemy_name = "Goblin"
    /\ enemy_hp = 1
    /\ keys = 2
    /\ mp = max_mp

(***************************************************************************)
(* The sessions of a character who uses items only: every key event is key *)
(* I.  The character has travelled to the scene of the enemy and may have   *)
(* picked up the items of the scenes before it and helped the spirit.       *)
(***************************************************************************)
\* the inventory after picking up the objects in picked, scene by scene, and
\* after helping the spirit if helped
Gathered(c, picked, helped) ==
    ClassStats(c).inventory
        \o (IF "Chest" \in picked THEN <<ItemIn("Chest")>> ELSE <<>>)
        \o (IF "Glint" \in picked THEN <<ItemIn("Glint")>> ELSE <<>>)
        \o (IF helped THEN <<"Spirit Charm">> ELSE <<>>)

InitItems ==
    /\ pclass \in Classes
    /\ hp = max_hp
    /\ mp = max_mp
    /\ gold = StartGold
    /\ scene_index \in 1 .. LastScene
    /\ \E picked \in SUBSET UNION {SceneItems(i) : i \in 0 .. (scene_index - 1)} :
          /\ items = UNION {SceneItems(i) : i \in 0 .. LastScene} \ picked
          /\ helped_spirit \in (IF scene_index = LastScene THEN BOOLEAN ELSE {FALSE})
          /\ inventory = Gathered(pclass, picked, helped_spirit)
    /\ Len(inventory) <= MaxInv
    /\ has_charm = helped_spirit
    /\ defending = FALSE
    /\ enemies = UNION {SceneEnemies(i) : i \in 0 .. LastScene}
    /\ running = TRUE
    /\ endings = <<>>
    /\ finished = FALSE
    /\ victory = FALSE
    /\ phase = "input"
    /\ log = <<>>
    /\ enemy_turns = 0
    /\ pending = FALSE
    /\ result = <<>>
    /\ resume = "run"
    /\ keys = 0
    /\ message = "Traveled to " \o SceneName(scene_index) \o "."
    /\ where = "combat"
    /\ site = "world"
    /\ enemy_name \in SceneEnemies(scene_index)
    /\ enemy_hp = make_enemy(enemy_name).hp

ItemKey == KeyEvent("I") /\ UNCHANGED keys

NextItems ==
    \/ ItemKey
    \/ RoundEnd
    \/ EndCombat
    \/ EndingQuit
    \/ EndingRestart

SpecItems == InitItems /\ [][NextItems]_vars

\* the reports of player_use_item when it uses an item
ItemReport(item) ==
    CASE item = "Small Potion" -> "Used Small Potion"
      [] item = "Mana Potion"  -> "Used Mana Potion"
      [] item = "Lucky Charm"  -> "Lucky Charm used"
      [] item = "Spirit Charm" -> "Spirit Charm hums"

\* the step in which the player's action is Use Item
UseItemStep ==
    /\ ActionStep
    /\ log' \in {<<"No items to use.">>, <<"No usable items found">>}
                  \cup {<<ItemReport(item)>> : item \in Catalog}

\* C19: Use Item with a catalog item in the inventory uses the first such item
\* in inventory order: its effect is applied, exactly that item is removed, the
\* other items stay in their order, and the items before it, which are not in
\* the catalog, are kept.
C19_FirstCatalogItemUsed ==
    [][(UseItemStep /\ \E k \in 1 .. Len(inventory) : inventory[k] \in Catalog)
          => \E i \in 1 .. Len(inventory) :
                /\ inventory[i] \in {"Small Potion", "Mana Potion", "Lucky Charm",
                                     "Spirit Charm"}
                /\ \A j \in 1 .. (i - 1) :
                      inventory[j] \notin {"Small Potion", "Mana Potion", "Lucky Charm",
                                           "Spirit Charm"}
                /\ inventory' = SubSeq(inventory, 1, i - 1)
                                   \o SubSeq(inventory, i + 1, Len(inventory))
                /\ log' = <<ItemReport(inventory[i])>>
                /\ inventory[i] = "Small Potion"
                      => (hp' > hp /\ UNCHANGED <<mp, gold, has_charm>>)
                /\ inventory[i] = "Mana Potion"
                      => (mp' = Min(max_mp, mp + 12) /\ UNCHANGED <<hp, gold, has_charm>>)
                /\ inventory[i] = "Lucky Charm"
                      => (hp' = Min(max_hp, hp + 8) /\ gold' = gold + 5
                            /\ UNCHANGED <<mp, has_charm>>)
                /\ inventory[i] = "Spirit Charm"
                      => (has_charm' /\ UNCHANGED <<hp, mp, gold>>)]_vars

\* a Rogue has used the Small Potion that lay behind the Dagger
C19_Witness ==
    /\ Acted("Used Small Potion")
    /\ inventory = <<"Dagger">>
    /\ items = {"Glint", "Banner"}

\* C20: Use Item with an empty inventory, or with no catalog item in it, reports
\* that no item is usable and does not consume the turn: no enemy turn runs and
\* the player's hp is unchanged before the next player action.
C20_NoItemKeepsTurn ==
    [][/\ (UseItemStep /\ \A k \in 1 .. Len(inventory) : inventory[k] \notin Catalog)
            => /\ log' \in {<<"No items to use.">>, <<"No usable items found">>}
               /\ UNCHANGED <<hp, mp, gold, inventory, has_charm, enemy_hp>>
       /\ (Acted("No items to use.") \/ Acted("No usable items found"))
            => (enemy_turns' = 0 /\ hp' = hp)]_vars

\* the step in which final_guardian_event resolves a choice: the world loop is
\* left for an ending or for a session started by one of its branches
GuardianStep ==
    /\ where = "world"
    /\ where' = "ending" \/ (where' = "combat" /\ site' # "world")

\* C21: the guardian confrontation starts only when the guard of the castle, the
\* Bandit Leader, has been defeated.
C21_GuardBeforeGuardian ==
    [][GuardianStep => "Bandit Leader" \notin enemies]_vars

C23_EnemyHpNotNegative == enemy_hp >= 0

\* C24: once a session is finished (victory, defeat or fled), no player action
\* and no enemy turn is applied to it: the player's hp, mp, gold and inventory,
\* the enemy's hp and the outcome stay as they are while the session lasts,
\* also when the event batch holds more key events.
C24_FinishedSessionFrozen ==
    [][(where = "combat" /\ finished /\ where' = "combat")
          => /\ UNCHANGED <<hp, mp, gold, inventory, enemy_hp, finished, victory>>
             /\ enemy_turns' = enemy_turns]_vars

\* C25: helped_spirit implies has_charm in every reachable state, so a player
\* who helped the spirit gets GOOD from Befriend without combat, and no session
\* started by the Befriend branch is fought by a player who helped the spirit.
C25_HelpedImpliesCharm ==
    [][/\ helped_spirit' => has_charm'
       /\ (where' = "combat" /\ site' = "B") => ~helped_spirit'
       /\ (BefriendStep /\ helped_spirit)
            => (where' = "ending" /\ endings' = Append(endings, "GOOD"))]_vars

\* a Rogue (magic 4) who helped the spirit has befriended the guardian
C25_Witness ==
    /\ where = "ending"
    /\ helped_spirit
    /\ pclass = "Rogue"
    /\ result = <<>>
    /\ message = EndingMessage("GOOD", "You spoke truly; the guardian accepts peace.")

\* C26: a playthrough resolves its ending at most once: end_game is called at
\* most one time, whatever the guardian choice and the outcome of the combat.
C26_EndGameOnce == Len(endings) <= 1

(***************************************************************************)
(* The sessions of a fresh character who attacks at every turn, against    *)
(* each enemy make_enemy knows: CombatScreen is entered for the name of    *)
(* any of its four entries, and every key event is key A, counted in keys. *)
(***************************************************************************)
EnemyCatalog == {"Goblin", "Bandit Leader", "Ancient Guardian", "Wolf"}

InitAttack ==
    /\ Fresh
    /\ where = "combat"
    /\ enemy_name \in EnemyCatalog
    /\ enemy_hp = make_enemy(enemy_name).hp
    /\ site = IF enemy_name = "Ancient Guardian" THEN "F" ELSE "world"
    /\ scene_index = IF enemy_name \in {"Goblin", "Wolf"} THEN 1 ELSE LastScene
    /\ message = "Traveled to " \o SceneName(scene_index) \o "."

CountedAttack ==
    /\ KeyEvent("A")
    /\ keys' = keys + 1

NextAttack ==
    \/ CountedAttack
    \/ RoundEnd
    \/ EndCombat
    \/ EndingQuit
    \/ EndingRestart

SpecAttack == InitAttack /\ [][NextAttack]_vars

\* ceil(a / b) for positive integers
CeilDiv(a, b) == (a + b - 1) \div b

\* the hp an enemy of the catalog starts with
InitialHp(name) ==
    CASE name = "Goblin" -> 20
      [] name = "Bandit Leader" -> 30
      [] name = "Ancient Guardian" -> 70
      [] name = "Wolf" -> 18

\* C27: a session in which the player attacks at every turn is finished after
\* at most ceil(enemy initial hp / (3 + strength)) player actions, for every
\* enemy of the catalog and every class, whatever the random draws.
C27_AttackBound ==
    (where = "combat" /\ phase = "input" /\ ~finished)
        => keys < CeilDiv(InitialHp(enemy_name), 3 + strength)

\* a Mage (strength 2) has needed all 14 attacks against the Ancient Guardian
C27_Witness ==
    /\ where = "combat"
    /\ phase = "input"
    /\ pclass = "Mage"
    /\ enemy_name = "Ancient Guardian"
    /\ keys = 14
    /\ finished
    /\ victory
    /\ enemy_hp = 0

====
